---- MODULE Spec2Model ----
(***************************************************************************)
(* Model of the ZIP local-file-header scanner extract_jsons                *)
(* (src/wasm-unzipper/src/lib.rs) and of the selection policy of the       *)
(* library-backed variant (src/wasm/wasm-unzipper/src/lib.rs).             *)
(*                                                                         *)
(* The buffer is a sequence of bytes.  usize is the 32-bit machine word of *)
(* the wasm32 target; the one addition whose operand is a full u32 taken   *)
(* from the buffer (data_start + compressed_size) is carried out on two    *)
(* 16-bit limbs so that its overflow is visible.  A build with overflow    *)
(* checks panics on that overflow, a build without them wraps mod 2^32.    *)
(***************************************************************************)
EXTENDS Integers, Sequences, FiniteSets, TLC

\* ---------------------------------------------------------------- bounds
MaxChunks == 3

\* ---------------------------------------------------------------- bytes
Limb == 65536

Signature == <<80, 75, 3, 4>>

HeaderSize == 30

DotJson == <<46, 106, 115, 111, 110>>

MacOsx == <<95, 95, 77, 65, 67, 79, 83, 88>>

DsStore == <<46, 68, 83, 95, 83, 116, 111, 114, 101>>

Slash == <<47>>

Replacement == 65533

\* ---------------------------------------------------------------- helpers
\* bytes [a, b) of a zero-based buffer
Slice(b, a, e) == SubSeq(b, a + 1, e)

\* a Rust range index s[a..e] is accepted iff a <= e <= len
SliceOk(a, e, len) == a <= e /\ e <= len

U16At(b, off) == b[off + 1] + 256 * b[off + 2]

EndsWith(s, suf) ==
    /\ Len(s) >= Len(suf)
    /\ SubSeq(s, Len(s) - Len(suf) + 1, Len(s)) = suf

Contains(s, sub) ==
    \E i \in 0 .. (Len(s) - Len(sub)) : SubSeq(s, i + 1, i + Len(sub)) = sub

\* String::from_utf8_lossy on the bytes of a name: an ASCII byte is its own
\* character, a byte that can never take part in UTF-8 (0xF5..0xFF), a lone
\* continuation byte or a lead byte without its continuation becomes U+FFFD;
\* a two-byte sequence decodes to its code point.
RECURSIVE FromUtf8Lossy(_)
FromUtf8Lossy(bytes) ==
    IF bytes = <<>> THEN <<>>
    ELSE LET c == bytes[1] IN
         IF c < 128 THEN <<c>> \o FromUtf8Lossy(Tail(bytes))
         ELSE IF /\ c >= 194 /\ c <= 223 /\ Len(bytes) >= 2
                 /\ bytes[2] >= 128 /\ bytes[2] <= 191
              THEN <<(c - 192) * 64 + (bytes[2] - 128)>>
                       \o FromUtf8Lossy(Tail(Tail(bytes)))
              ELSE <<Replacement>> \o FromUtf8Lossy(Tail(bytes))

\* ---------------------------------------------------------------- usize
\* a + (hi * 2^16 + lo) in 32-bit words; a < 2^31
WordAdd(a, hi, lo) ==
    LET s_lo == (a % Limb) + lo
        s_hi == (a \div Limb) + hi + (s_lo \div Limb)
    IN  [hi |-> s_hi % Limb, lo |-> s_lo % Limb, carry |-> s_hi >= Limb]

\* word > n, for n < 2^31
WordGt(w, n) ==
    \/ w.hi > n \div Limb
    \/ w.hi = n \div Limb /\ w.lo > n % Limb

\* the value of a word known to be below 2^31
WordVal(w) == w.hi * Limb + w.lo

\* ---------------------------------------------------------------- inflate
\* miniz_oxide::inflate::decompress_to_vec on a raw DEFLATE stream, for the
\* streams made of stored blocks (BTYPE 00) and of the reserved block type
\* (BTYPE 11): a block header byte, LEN and its one's complement NLEN, then
\* LEN literal bytes; the stream ends with the block whose BFINAL bit is set.
\* A stream that ends early, a LEN/NLEN mismatch and BTYPE 11 are errors.
\* Huffman-coded blocks (BTYPE 01, 10) are not modelled: modelled |-> FALSE.
RECURSIVE InflateFrom(_, _, _)
InflateFrom(data, i, out) ==
    IF i > Len(data) THEN [ok |-> FALSE, bytes |-> <<>>, modelled |-> TRUE]
    ELSE LET bfinal == data[i] % 2
             btype  == (data[i] \div 2) % 4
         IN  IF btype = 3 THEN [ok |-> FALSE, bytes |-> <<>>, modelled |-> TRUE]
             ELSE IF btype # 0 THEN [ok |-> FALSE, bytes |-> <<>>, modelled |-> FALSE]
             ELSE IF i + 4 > Len(data)
                  THEN [ok |-> FALSE, bytes |-> <<>>, modelled |-> TRUE]
             ELSE LET len  == data[i + 1] + 256 * data[i + 2]
                      nlen == data[i + 3] + 256 * data[i + 4]
                  IN  IF len + nlen # 65535 \/ i + 4 + len > Len(data)
                      THEN [ok |-> FALSE, bytes |-> <<>>, modelled |-> TRUE]
                      ELSE LET o == out \o SubSeq(data, i + 5, i + 4 + len)
                           IN  IF bfinal = 1
                               THEN [ok |-> TRUE, bytes |-> o, modelled |-> TRUE]
                               ELSE InflateFrom(data, i + 5 + len, o)

decompress_to_vec(data) == InflateFrom(data, 1, <<>>)

\* ---------------------------------------------------------------- JSON
\* serde_json::from_slice::<Value> on the JSON texts made of whitespace,
\* unsigned integers and arrays: optional whitespace, one value, optional
\* whitespace, end of input.  A number is 0 or a digit 1-9 followed by
\* digits; an array is [ ] or [ v , v ... ].  The value of a number is the
\* integer, of an array the sequence of its items.  Any other byte is a
\* syntax error.
IsWs(c) == c \in {32, 9, 10, 13}

IsDigit(c) == c >= 48 /\ c <= 57

RECURSIVE SkipWs(_, _)
SkipWs(s, i) == IF i <= Len(s) /\ IsWs(s[i]) THEN SkipWs(s, i + 1) ELSE i

RECURSIVE ParseDigits(_, _, _)
ParseDigits(s, i, acc) ==
    IF i <= Len(s) /\ IsDigit(s[i])
    THEN ParseDigits(s, i + 1, acc * 10 + (s[i] - 48))
    ELSE [n |-> acc, next |-> i]

JsonErr == [ok |-> FALSE, val |-> [t |-> "null"], next |-> 0]

RECURSIVE ParseValue(_, _)
RECURSIVE ParseItems(_, _, _)
ParseValue(s, i0) ==
    LET i == SkipWs(s, i0) IN
    IF i > Len(s) THEN JsonErr
    ELSE IF s[i] = 48
         THEN IF i + 1 <= Len(s) /\ IsDigit(s[i + 1]) THEN JsonErr
              ELSE [ok |-> TRUE, val |-> [t |-> "num", n |-> 0], next |-> i + 1]
    ELSE IF IsDigit(s[i])
         THEN LET d == ParseDigits(s, i, 0)
              IN  [ok |-> TRUE, val |-> [t |-> "num", n |-> d.n], next |-> d.next]
    ELSE IF s[i] = 91
         THEN LET j == SkipWs(s, i + 1) IN
              IF j <= Len(s) /\ s[j] = 93
              THEN [ok |-> TRUE, val |-> [t |-> "arr", items |-> <<>>], next |-> j + 1]
              ELSE ParseItems(s, j, <<>>)
    ELSE JsonErr

ParseItems(s, i, acc) ==
    LET v == ParseValue(s, i) IN
    IF ~v.ok THEN JsonErr
    ELSE LET j == SkipWs(s, v.next) IN
         IF j > Len(s) THEN JsonErr
         ELSE IF s[j] = 44 THEN ParseItems(s, j + 1, Append(acc, v.val))
         ELSE IF s[j] = 93
              THEN [ok |-> TRUE, val |-> [t |-> "arr", items |-> Append(acc, v.val)],
                    next |-> j + 1]
         ELSE JsonErr

from_slice(s) ==
    LET v == ParseValue(s, 1) IN
    IF v.ok /\ SkipWs(s, v.next) > Len(s)
    THEN [ok |-> TRUE, val |-> v.val]
    ELSE [ok |-> FALSE, val |-> [t |-> "null"]]


\* ---------------------------------------------------------------- scanner
\* mutant: the loop runs while the four signature bytes fit
LoopCond_sig(b, p) == p + 4 <= Len(b)

\* while pos + 30 < zip_bytes.len()
LoopCond(b, p) == p + HeaderSize < Len(b)

\* the fixed-offset reads zip_bytes[pos + 8] .. zip_bytes[pos + 29] and the
\* range pos..pos + 4 are in bounds
HeaderReadsOk(b, p) == SliceOk(p, p + 4, Len(b)) /\ p + 29 < Len(b)

\* mutant: only the first two bytes of the signature are compared
HasSignature_pk(b, p) == Slice(b, p, p + 2) = <<80, 75>>

\* &zip_bytes[pos..pos + 4] == [0x50, 0x4b, 0x03, 0x04]
HasSignature(b, p) == Slice(b, p, p + 4) = Signature

file_name_len(b, p) == U16At(b, p + 26)

extra_len(b, p) == U16At(b, p + 28)

\* a u32, kept as its two 16-bit halves
compressed_size(b, p) == [hi |-> U16At(b, p + 20), lo |-> U16At(b, p + 18)]

\* mutant: the method is read from the flags field
compression_method_flags(b, p) == U16At(b, p + 6)

compression_method(b, p) == U16At(b, p + 8)

name_start(b, p) == p + HeaderSize

name_end(b, p) == name_start(b, p) + file_name_len(b, p)

NameTruncated(b, p) == name_end(b, p) > Len(b)

file_name(b, p) == Slice(b, name_start(b, p), name_end(b, p))

file_name_str(b, p) == FromUtf8Lossy(file_name(b, p))

\* mutant: the extra field is not skipped
data_start_noextra(b, p) == name_end(b, p)

data_start(b, p) == name_end(b, p) + extra_len(b, p)

\* data_start + compressed_size in usize; carry is the overflow of the word
data_end(b, p) ==
    WordAdd(data_start(b, p), compressed_size(b, p).hi, compressed_size(b, p).lo)

DataTruncated(b, p) == WordGt(data_end(b, p), Len(b))

compressed_data(b, p) == Slice(b, data_start(b, p), WordVal(data_end(b, p)))

\* mutant: contains instead of ends_with
Selected_contains(b, p) == Contains(file_name_str(b, p), DotJson)

\* file_name_str.ends_with(".json")
Selected(b, p) == EndsWith(file_name_str(b, p), DotJson)

\* mutant: an unsupported method falls back to the raw bytes
decompressed_raw_fallback(b, p) ==
    IF compression_method(b, p) = 8
    THEN LET r == decompress_to_vec(compressed_data(b, p))
         IN  IF r.ok THEN r.bytes ELSE <<>>
    ELSE compressed_data(b, p)

decompressed(b, p) ==
    IF compression_method(b, p) = 0 THEN compressed_data(b, p)
    ELSE IF compression_method(b, p) = 8
         THEN LET r == decompress_to_vec(compressed_data(b, p))
              IN  IF r.ok THEN r.bytes ELSE <<>>
         ELSE <<>>

\* the values results.push adds for the entry at p: one or none
Pushed(b, p) ==
    LET j == from_slice(decompressed(b, p))
    IN  IF j.ok THEN <<j.val>> ELSE <<>>

\* What one evaluation of the loop at cursor p does.  checks: the build traps
\* integer overflow (debug) instead of wrapping (release).
Outcome(b, p, checks) ==
    IF ~LoopCond(b, p) THEN "return"
    ELSE IF ~HeaderReadsOk(b, p) THEN "panic_slice"
    ELSE IF ~HasSignature(b, p) THEN "mismatch"
    ELSE IF NameTruncated(b, p) THEN "break_name"
    ELSE IF ~SliceOk(name_start(b, p), name_end(b, p), Len(b)) THEN "panic_slice"
    ELSE IF data_end(b, p).carry /\ checks THEN "panic_overflow"
    ELSE IF DataTruncated(b, p) THEN "break_data"
    ELSE IF ~SliceOk(data_start(b, p), WordVal(data_end(b, p)), Len(b))
         THEN "panic_slice"
    ELSE IF Selected(b, p) THEN "decode"
    ELSE "skip"

\* the whole call as a function of the buffer
RECURSIVE Run(_, _, _, _)
Run(b, p, res, checks) ==
    LET k == Outcome(b, p, checks) IN
    IF k \in {"return", "break_name", "break_data"}
    THEN [panic |-> FALSE, results |-> res]
    ELSE IF k \in {"panic_slice", "panic_overflow"}
    THEN [panic |-> TRUE, results |-> <<>>]
    ELSE IF k = "mismatch" THEN Run(b, p + 1, res, checks)
    ELSE IF k = "skip" THEN Run(b, WordVal(data_end(b, p)), res, checks)
    ELSE Run(b, WordVal(data_end(b, p)), res \o Pushed(b, p), checks)

extract_jsons(b, checks) == Run(b, 0, <<>>, checks)

\* ---------------------------------------------------------------- library variant
\* the names the library-backed extract_jsons skips as directories and
\* system files
IsArtifact(name) ==
    \/ EndsWith(name, Slash)
    \/ Contains(name, MacOsx)
    \/ EndsWith(name, DsStore)

\* ---------------------------------------------------------------- inputs
U16LE(n) == <<n % 256, n \div 256>>

\* the 30 bytes of a local file header
LocalHeader(method, cs_hi, cs_lo, fnl, xl) ==
    Signature \o <<20, 0>> \o <<0, 0>> \o U16LE(method) \o <<0, 0, 0, 0>>
        \o <<0, 0, 0, 0>> \o U16LE(cs_lo) \o U16LE(cs_hi) \o <<1, 0, 0, 0>>
        \o U16LE(fnl) \o U16LE(xl)

\* a DEFLATE stream of one final stored block
DeflateStored(content) ==
    <<1>> \o U16LE(Len(content)) \o U16LE(65535 - Len(content)) \o content

Num(n) == [t |-> "num", n |-> n]

Arr(items) == [t |-> "arr", items |-> items]

\* an entry whose header declares the sizes its regions have; value is what
\* its content is as JSON (one value, or none when it is no JSON or cannot
\* be decoded)
Entry(name, method, extra, payload, value) ==
    [kind |-> "entry", name |-> name, method |-> method, extra |-> extra,
     payload |-> payload, value |-> value,
     bytes |-> LocalHeader(method, 0, Len(payload), Len(name), Len(extra))
                   \o name \o extra \o payload]

\* an entry whose header declares other sizes than its regions have
Forged(name, cs_hi, cs_lo, fnl, payload) ==
    [kind |-> "forged", name |-> name, method |-> 0, extra |-> <<>>,
     payload |-> payload, value |-> <<>>,
     bytes |-> LocalHeader(0, cs_hi, cs_lo, fnl, 0) \o name \o payload]

Garbage(bytes) ==
    [kind |-> "garbage", name |-> <<>>, method |-> 0, extra |-> <<>>,
     payload |-> <<>>, value |-> <<>>, bytes |-> bytes]

NameA == <<97>> \o DotJson

NameTxt == NameA \o <<46, 116, 120, 116>>

ChunkTable == <<
    \* a.json, stored: 1
    Entry(NameA, 0, <<>>, <<49>>, <<Num(1)>>),
    \* a.json, stored, with an extra field: [1, 2]
    Entry(NameA, 0, <<7>>, <<91, 49, 44, 32, 50, 93>>, <<Arr(<<Num(1), Num(2)>>)>>),
    \* a.json, deflated: " 2 "
    Entry(NameA, 8, <<>>, DeflateStored(<<32, 50, 32>>), <<Num(2)>>),
    \* a.json, deflated, LEN and NLEN do not match
    Entry(NameA, 8, <<>>, <<1, 1, 0, 0, 0, 49>>, <<>>),
    \* a.json, unsupported method
    Entry(NameA, 99, <<>>, <<49>>, <<>>),
    \* <FF>.json, stored: a signature followed by 1, which is no JSON
    Entry(<<255>> \o DotJson, 0, <<>>, Signature \o <<49>>, <<>>),
    \* a.json.txt, stored, with an extra field: 1
    Entry(NameTxt, 0, <<7>>, <<49>>, <<Num(1)>>),
    \* __MACOSX/a.json, stored: 3
    Entry(MacOsx \o Slash \o NameA, 0, <<>>, <<51>>, <<Num(3)>>),
    \* a.json, the payload is 5 bytes shorter than compressed_size
    Forged(NameA, 0, 6, 6, <<49>>),
    \* a.json, compressed_size = 2^32 - 1
    Forged(NameA, 65535, 65535, 6, <<49>>),
    \* a.json, file_name_len = 2^16 - 1
    Forged(NameA, 0, 1, 65535, <<49>>),
    \* bytes without a signature, beginning and ending with parts of one
    Garbage(<<3, 4, 80, 75, 3, 80, 75, 5, 6, 0, 80, 75, 1, 2, 0, 80>>),
    \* bytes with a signature
    Garbage(Signature)
>>

ChunkIds == 1 .. Len(ChunkTable)

RECURSIVE Flatten(_)
Flatten(ids) ==
    IF ids = <<>> THEN <<>> ELSE ChunkTable[Head(ids)].bytes \o Flatten(Tail(ids))

\* ---------------------------------------------------------------- state
VARIABLES
    chunks,           \* how the buffer was put together (ids of ChunkTable)
    zip_bytes,        \* the argument
    pos,
    results,
    pc,               \* "loop", "done" (returned) or "panic"
    fault,            \* what the panic was: "none", "overflow" or "slice"
    compares,         \* signature comparisons made
    decodes,          \* entries for which a copy, inflate or parse was made
    examined,         \* cursors at which a signature comparison was made
    parsed,           \* <<p, data_end>> of the entries parsed in full
    contrib           \* the name of the entry behind each element of results

vars == <<chunks, zip_bytes, pos, results, pc, fault, compares, decodes, examined,
          parsed, contrib>>

Init ==
    /\ chunks \in UNION {[1 .. n -> ChunkIds] : n \in 0 .. MaxChunks}
    /\ zip_bytes = Flatten(chunks)
    /\ pos = 0
    /\ results = <<>>
    /\ pc = "loop"
    /\ fault = "none"
    /\ compares = 0
    /\ decodes = 0
    /\ examined = {}
    /\ parsed = {}
    /\ contrib = <<>>

\* the loop at the cursor does k in one of the two builds
Now(k) == \E checks \in BOOLEAN : Outcome(zip_bytes, pos, checks) = k

\* the loop condition fails: line 64 returns results
Return ==
    /\ pc = "loop"
    /\ Now("return")
    /\ pc' = "done"
    /\ UNCHANGED <<chunks, zip_bytes, pos, results, fault, compares, decodes,
                   examined, parsed, contrib>>

\* lines 16-19
Mismatch ==
    /\ pc = "loop"
    /\ Now("mismatch")
    /\ pos' = pos + 1
    /\ compares' = compares + 1
    /\ examined' = examined \cup {pos}
    /\ UNCHANGED <<chunks, zip_bytes, results, pc, fault, decodes, parsed, contrib>>

\* lines 34-36, then line 64
BreakName ==
    /\ pc = "loop"
    /\ Now("break_name")
    /\ pc' = "done"
    /\ compares' = compares + 1
    /\ examined' = examined \cup {pos}
    /\ UNCHANGED <<chunks, zip_bytes, pos, results, fault, decodes, parsed, contrib>>

\* lines 42-44, then line 64
BreakData ==
    /\ pc = "loop"
    /\ Now("break_data")
    /\ pc' = "done"
    /\ compares' = compares + 1
    /\ examined' = examined \cup {pos}
    /\ UNCHANGED <<chunks, zip_bytes, pos, results, fault, decodes, parsed, contrib>>

\* line 41 in a build that traps overflow
PanicOverflow ==
    /\ pc = "loop"
    /\ Now("panic_overflow")
    /\ pc' = "panic"
    /\ fault' = "overflow"
    /\ compares' = compares + 1
    /\ examined' = examined \cup {pos}
    /\ UNCHANGED <<chunks, zip_bytes, pos, results, decodes, parsed, contrib>>

\* a range or index outside the buffer (lines 16, 22-30, 37, 45)
PanicSlice ==
    /\ pc = "loop"
    /\ Now("panic_slice")
    /\ pc' = "panic"
    /\ fault' = "slice"
    /\ compares' = compares + 1
    /\ examined' = examined \cup {pos}
    /\ UNCHANGED <<chunks, zip_bytes, pos, results, decodes, parsed, contrib>>

\* lines 47, 61: the name does not end with .json
SkipEntry ==
    /\ pc = "loop"
    /\ Now("skip")
    /\ pos' = WordVal(data_end(zip_bytes, pos))
    /\ compares' = compares + 1
    /\ examined' = examined \cup {pos}
    /\ parsed' = parsed \cup {<<pos, WordVal(data_end(zip_bytes, pos))>>}
    /\ UNCHANGED <<chunks, zip_bytes, results, pc, fault, decodes, contrib>>

\* lines 47-61
DecodeEntry ==
    /\ pc = "loop"
    /\ Now("decode")
    /\ results' = results \o Pushed(zip_bytes, pos)
    /\ contrib' = contrib \o [i \in 1 .. Len(Pushed(zip_bytes, pos)) |->
                                 file_name(zip_bytes, pos)]
    /\ decodes' = decodes + 1
    /\ pos' = WordVal(data_end(zip_bytes, pos))
    /\ compares' = compares + 1
    /\ examined' = examined \cup {pos}
    /\ parsed' = parsed \cup {<<pos, WordVal(data_end(zip_bytes, pos))>>}
    /\ UNCHANGED <<chunks, zip_bytes, pc, fault>>

Next ==
    \/ Return
    \/ Mismatch
    \/ BreakName
    \/ BreakData
    \/ PanicOverflow
    \/ PanicSlice
    \/ SkipEntry
    \/ DecodeEntry

Spec == Init /\ [][Next]_vars

\* ---------------------------------------------------------------- model domain
\* The runs stay within what the models of the libraries cover: names hold
\* no multi-byte UTF-8 sequence of three or four bytes, no inflated stream
\* has a Huffman-coded block, and no parsed text holds a byte that begins a
\* JSON token other than a number or an array.
WithinModelledInputs ==
    /\ \A i \in 1 .. Len(zip_bytes) : zip_bytes[i] < 224 \/ zip_bytes[i] > 244
    /\ (pc = "loop" /\ Now("decode")) =>
          /\ compression_method(zip_bytes, pos) = 8 =>
                 decompress_to_vec(compressed_data(zip_bytes, pos)).modelled
          /\ \A i \in 1 .. Len(decompressed(zip_bytes, pos)) :
                 decompressed(zip_bytes, pos)[i] \notin
                     {34, 45, 46, 69, 101, 102, 110, 116, 123}

\* ---------------------------------------------------------------- layout
Chunk(i) == ChunkTable[chunks[i]]

ChunkStart(i) == Len(Flatten(SubSeq(chunks, 1, i - 1)))

ChunkEnd(i) == Len(Flatten(SubSeq(chunks, 1, i)))

\* an entry with sound sizes whose name ends with .json
Qualifies(c) == c.kind = "entry" /\ EndsWith(c.name, DotJson)

\* ... that is stored or deflated and whose content is JSON
WellFormedQualifying(c) == Qualifies(c) /\ c.method \in {0, 8} /\ c.value # <<>>

\* the values of the qualifying entries, in the order of the chunks
RECURSIVE Values(_)
Values(ids) ==
    IF ids = <<>> THEN <<>>
    ELSE (IF Qualifies(ChunkTable[Head(ids)]) THEN ChunkTable[Head(ids)].value
          ELSE <<>>) \o Values(Tail(ids))

\* the number of garbage chunks the buffer begins with
RECURSIVE LeadingGarbage(_)
LeadingGarbage(ids) ==
    IF ids # <<>> /\ ChunkTable[Head(ids)].kind = "garbage"
    THEN 1 + LeadingGarbage(Tail(ids))
    ELSE 0

GarbagePart == SubSeq(chunks, 1, LeadingGarbage(chunks))

ArchivePart == SubSeq(chunks, LeadingGarbage(chunks) + 1, Len(chunks))

\* garbage in front of an archive made of sound entries
GarbageThenArchive ==
    /\ GarbagePart # <<>>
    /\ ArchivePart # <<>>
    /\ \A i \in 1 .. Len(ArchivePart) : ChunkTable[ArchivePart[i]].kind = "entry"

\* a header at p whose name and payload regions lie within the buffer
InBounds(b, p) ==
    /\ LoopCond(b, p)
    /\ HasSignature(b, p)
    /\ p + HeaderSize + U16At(b, p + 26) <= Len(b)
    /\ ~data_end(b, p).carry
    /\ ~WordGt(data_end(b, p), Len(b))

\* a header at p whose name or payload region overruns the buffer
Overruns(b, p) == LoopCond(b, p) /\ HasSignature(b, p) /\ ~InBounds(b, p)

\* ---------------------------------------------------------------- claims

\* C1: extract_jsons never faults: no index or range it uses lies outside
\* the buffer and no offset it computes overflows the 32-bit word.
C1_NeverFaults == pc # "panic"

\* C2: every iteration of the loop either ends the scan with the function
\* returning or strictly increases the cursor, and there are at most
\* len(buffer) iterations.
C2_ScanCompletes ==
    /\ [][pc = "loop" => (pc' = "done" \/ (pc' = "loop" /\ pos' > pos))]_vars
    /\ [](compares <= Len(zip_bytes))

\* C3: when the name region or the payload region of the header at the
\* cursor overruns the buffer, the scan stops there and returns exactly the
\* values accumulated so far.
C3_GracefulTruncation ==
    [][(pc = "loop" /\ Overruns(zip_bytes, pos))
           => (pc' = "done" /\ results' = results)]_vars

\* C4: in a buffer of sound .json entries of which some have an unsupported
\* method, a corrupt deflate stream or a content that is no JSON, the scan
\* returns the values of all the others in order and the cursor passes over
\* every entry from its header to its data end.
C4_EntryFailuresSkipped ==
    (/\ pc # "loop"
     /\ chunks # <<>>
     /\ \A i \in 1 .. Len(chunks) : Qualifies(Chunk(i))
     /\ \E i \in 1 .. Len(chunks) : Chunk(i).value = <<>>)
    => /\ pc = "done"
       /\ results = Values(chunks)
       /\ \A i \in 1 .. Len(chunks) : <<ChunkStart(i), ChunkEnd(i)>> \in parsed

C4_Witness ==
    /\ pc = "done"
    /\ Len(chunks) = 3
    /\ WellFormedQualifying(Chunk(1))
    /\ Qualifies(Chunk(2)) /\ Chunk(2).method = 8 /\ Chunk(2).value = <<>>
    /\ WellFormedQualifying(Chunk(3))
    /\ Len(results) = 2

\* C5: for N >= 1 well-formed qualifying entries placed consecutively the
\* result has exactly N values and the i-th is the parsed content of the
\* i-th entry.
C5_ValuesInEntryOrder ==
    (/\ pc # "loop"
     /\ chunks # <<>>
     /\ \A i \in 1 .. Len(chunks) : WellFormedQualifying(Chunk(i)))
    => /\ pc = "done"
       /\ Len(results) = Len(chunks)
       /\ \A i \in 1 .. Len(chunks) : results[i] = Chunk(i).value[1]

C5_Witness ==
    /\ pc = "done"
    /\ Len(chunks) = 3
    /\ \A i \in 1 .. 3 : WellFormedQualifying(Chunk(i))
    /\ Chunk(1).method = 8
    /\ Chunk(1).value # Chunk(2).value
    /\ Len(results) = 3

\* C6 as stated: whatever bytes are put in front of a well-formed archive,
\* the result is that of the archive alone.
C6_AnyLeadingGarbage ==
    (pc # "loop" /\ GarbageThenArchive)
    => /\ pc = "done"
       /\ \A checks \in BOOLEAN :
              extract_jsons(Flatten(ArchivePart), checks) =
                  [panic |-> FALSE, results |-> results]

\* C6 amended: bytes in which the local-file-header signature does not
\* occur, put in front of a well-formed archive, leave the result that of
\* the archive alone.
C6_LeadingGarbageWithoutSignature ==
    (/\ pc # "loop"
     /\ GarbageThenArchive
     /\ ~Contains(Flatten(GarbagePart), Signature))
    => /\ pc = "done"
       /\ \A checks \in BOOLEAN :
              extract_jsons(Flatten(ArchivePart), checks) =
                  [panic |-> FALSE, results |-> results]

C6_Witness ==
    /\ pc = "done"
    /\ GarbageThenArchive
    /\ ~Contains(Flatten(GarbagePart), Signature)
    /\ Len(results) >= 2
    /\ compares > Len(Flatten(GarbagePart))

\* C7: no entry whose name ends in a path separator, contains __MACOSX or
\* ends with .DS_Store contributes a value to the result.
C7_ArtifactsExcluded == \A i \in 1 .. Len(contrib) : ~IsArtifact(contrib[i])

\* C8: an entry lying within the buffer whose name does not end with .json
\* is passed over without any decode step, leaves the results as they are
\* and moves the cursor to its data end.
C8_UnselectedNotDecoded ==
    [][(/\ pc = "loop"
        /\ InBounds(zip_bytes, pos)
        /\ ~EndsWith(file_name(zip_bytes, pos), DotJson))
           => /\ pc' = "loop"
              /\ results' = results
              /\ contrib' = contrib
              /\ decodes' = decodes
              /\ pos' = WordVal(data_end(zip_bytes, pos))]_vars

C8_Witness ==
    /\ pc = "done"
    /\ decodes = 0
    /\ results = <<>>
    /\ \E e \in parsed :
           /\ ~EndsWith(Slice(zip_bytes, e[1] + HeaderSize,
                              e[1] + HeaderSize + U16At(zip_bytes, e[1] + 26)), DotJson)
           /\ Contains(Slice(zip_bytes, e[1] + HeaderSize, e[2]), DotJson)
           /\ pos = e[2]

\* C9: a buffer shorter than the 30-byte header, or one in which the
\* signature occurs nowhere, yields the empty result after at most
\* len(buffer) signature comparisons.
C9_NonArchiveYieldsNothing ==
    (Len(zip_bytes) < HeaderSize \/ ~Contains(zip_bytes, Signature))
    => /\ pc # "panic"
       /\ results = <<>>
       /\ parsed = {}
       /\ compares <= Len(zip_bytes)

C9_Witness ==
    /\ pc = "done"
    /\ ~Contains(zip_bytes, Signature)
    /\ Len(zip_bytes) > HeaderSize
    /\ compares = Len(zip_bytes) - HeaderSize
    /\ results = <<>>

\* C10: the cursor stays within 0..len(buffer) and never decreases; an
\* entry parsed at p moves it to its data end, at least p + 30, so that no
\* offset inside the entry is ever tried as a signature.
C10_CursorInvariant ==
    /\ [](/\ 0 <= pos /\ pos <= Len(zip_bytes)
          /\ \A e \in parsed :
                 /\ e[2] >= e[1] + HeaderSize
                 /\ \A q \in examined : ~(e[1] < q /\ q < e[2])
          /\ \A i \in 1 .. Len(chunks) :
                 (Chunk(i).kind = "entry" /\ ChunkStart(i) \in examined)
                     => \A q \in examined : ~(ChunkStart(i) < q /\ q < ChunkEnd(i)))
    /\ [][pos' >= pos]_vars

C10_Witness ==
    /\ pc = "done"
    /\ \E e \in parsed :
           /\ Contains(Slice(zip_bytes, e[1] + 4, e[2]), Signature)
           /\ \E q \in examined : q >= e[2]
           /\ \E q \in examined : q < e[1]

====
